---- MODULE Spec2Model ----
(***************************************************************************)
(* canvas-lms-downloader (src/src/index.ts): the incremental mirror of a   *)
(* Canvas course into a local directory tree.                              *)
(*                                                                         *)
(* A string is a sequence of symbols; a symbol is one character or a run   *)
(* of safe characters kept as a unit ("psets", "out").  A path is the      *)
(* sequence of its components below the filesystem root.  A remote         *)
(* timestamp is the instant of its ISO-8601 string, in seconds.            *)
(***************************************************************************)
EXTENDS Integers, Sequences, FiniteSets, TLC

\* ------------------------------------------------------------------ bounds
MaxCourses  == 2   \* courses the remote lists
MaxItems    == 2   \* records of one listing
MaxTime     == 1   \* largest remote timestamp; 0 is the epoch
MaxFailures == 1   \* requests, transfers and writes that fail over all runs
MaxRuns     == 2   \* invocations of the program on the same target directory
MaxLen      == 2   \* symbols of a remote name handed to the path resolvers
MaxFiles    == 3   \* records of a file listing handed to the deduplication

\* ----------------------------------------------------------------- strings
Whitespace == {" "}
Reserved   == {":", "/"}          \* of filenamify's < > : " / \ | ? *
Alphabet   == {"a", " ", ":", "/", ".", "psets"}

Strings(n) == UNION {[1..k -> Alphabet] : k \in 0..n}

Digit(n) == <<"1", "2", "3", "4", "5", "6">>[n]

RECURSIVE DropWhile(_, _)
DropWhile(s, c) ==
  IF s # <<>> /\ s[1] = c THEN DropWhile(Tail(s), c) ELSE s

RECURSIVE DropWhileEnd(_, _)
DropWhileEnd(s, c) ==
  IF s # <<>> /\ s[Len(s)] = c THEN DropWhileEnd(SubSeq(s, 1, Len(s) - 1), c) ELSE s

\* trim-repeated: every run of c becomes one c
RECURSIVE TrimRepeated(_, _)
TrimRepeated(s, c) ==
  IF Len(s) < 2 THEN s
  ELSE IF s[1] = c /\ s[2] = c THEN TrimRepeated(Tail(s), c)
  ELSE <<s[1]>> \o TrimRepeated(Tail(s), c)

\* filenamify(s), replacement "!": reserved characters, then a leading run of
\* dots, become "!"; trailing dots go; runs of "!" collapse; outer "!" are cut
\* from a result longer than one symbol.
filenamify(s) ==
  LET r1 == [i \in 1..Len(s) |-> IF s[i] \in Reserved THEN "!" ELSE s[i]]
      r2 == IF r1 # <<>> /\ r1[1] = "." THEN <<"!">> \o DropWhile(r1, ".") ELSE r1
      r3 == DropWhileEnd(r2, ".")
      r4 == TrimRepeated(r3, "!")
  IN  IF Len(r4) > 1 THEN DropWhileEnd(DropWhile(r4, "!"), "!") ELSE r4

\* .replace(/\s/g,'_')
ReplaceWhitespace(s) ==
  [i \in 1..Len(s) |-> IF s[i] \in Whitespace THEN "_" ELSE s[i]]

santizeFilename(s) == ReplaceWhitespace(filenamify(s))

\* s.split('/'): the pieces between separators, empty pieces kept
RECURSIVE Split(_, _)
Split(s, sep) ==
  IF \A i \in 1..Len(s) : s[i] # sep THEN <<s>>
  ELSE LET i == CHOOSE j \in 1..Len(s) :
                  s[j] = sep /\ \A h \in 1..(j - 1) : s[h] # sep
       IN  <<SubSeq(s, 1, i - 1)>> \o Split(SubSeq(s, i + 1, Len(s)), sep)

\* ------------------------------------------------------------------- paths
RECURSIVE WalkComponents(_, _)
WalkComponents(p, comps) ==
  IF comps = <<>> THEN p
  ELSE LET c == comps[1]
           q == IF c = <<>> \/ c = <<".">> THEN p
                ELSE IF c = <<".", ".">>
                     THEN (IF p = <<>> THEN p ELSE SubSeq(p, 1, Len(p) - 1))
                     ELSE Append(p, c)
       IN  WalkComponents(q, Tail(comps))

\* path.resolve(base, ...args) on an absolute base: an empty argument is
\* ignored, an argument starting with "/" restarts at the root, "." and ".."
\* are resolved.
RECURSIVE PathResolve(_, _)
PathResolve(base, args) ==
  IF args = <<>> THEN base
  ELSE LET a     == args[1]
           start == IF a # <<>> /\ a[1] = "/" THEN <<>> ELSE base
       IN  PathResolve(WalkComponents(start, Split(a, "/")), Tail(args))

TargetFolder == << <<"out">> >>     \* path.resolve of options.dir

IsPrefix(p, q) == Len(p) <= Len(q) /\ SubSeq(q, 1, Len(p)) = p

\* the components of path p below directory d (all of p when p left d)
Below(d, p) == IF IsPrefix(d, p) THEN SubSeq(p, Len(d) + 1, Len(p)) ELSE p

CourseDir(c) ==
  PathResolve(TargetFolder, <<santizeFilename(c.name) \o <<"_">> \o <<Digit(c.id)>>>>)

MapSantize(segs) == [i \in 1..Len(segs) |-> santizeFilename(segs[i])]

\* downloadFiles: the folder of a file, then its destination
FilesFolder(courseDir, full_name) ==
  PathResolve(courseDir, MapSantize(Split(full_name, "/")))

FilesDestPath(courseDir, full_name, filename) ==
  PathResolve(FilesFolder(courseDir, full_name), <<filename>>)

\* downloadModules: modules/<name>, whitespace of the whole path replaced
ModulesFolder(courseDir, name) ==
  LET p == PathResolve(courseDir, MapSantize(Split(<<"modules", "/">> \o name, "/")))
  IN  [i \in 1..Len(p) |-> ReplaceWhitespace(p[i])]

ModulesDestPath(courseDir, name, filename) ==
  PathResolve(ModulesFolder(courseDir, name), <<filename>>)

\* downloadAssignments: psets/<link text>
AssignmentsDestPath(courseDir, text) ==
  PathResolve(PathResolve(courseDir, << <<"psets", "/">> >>), <<text>>)

\* downloadPages: pages/<url>.html
PagesDestPath(courseDir, url) ==
  PathResolve(PathResolve(courseDir, << <<"pages">> >>),
              <<santizeFilename(url) \o <<".html">>>>)

\* downloadAnnouncements: announcements/<title>_<id>.html
AnnouncementsDestPath(courseDir, title, id) ==
  PathResolve(PathResolve(courseDir, << <<"announcements">> >>),
              <<santizeFilename(title \o <<"_">> \o <<Digit(id)>>) \o <<".html">>>>)

\* -------------------------------------------------------------- timestamps
\* new Date(iso).getTime(): milliseconds of a timestamp given in seconds
getTime(iso) == iso * 1000

\* the seconds and nanoseconds fs.utimes stores for a Date
toTimespec(ms) == [sec |-> ms \div 1000, nsec |-> (ms % 1000) * 1000000]

\* new Date(): the wall clock, apart from every remote timestamp
Now == [sec |-> -1, nsec |-> 0]

\* (await fs.stat(p)).mtime.getTime() and the same of atime
statMtime(f) == f.mtime.sec * 1000 + f.mtime.nsec \div 1000000
statAtime(f) == f.atime.sec * 1000 + f.atime.nsec \div 1000000

\* ----------------------------------------------------------- deduplication
\* `${f.folder_id} ${f.filename}`
uniqKey(f) == <<Digit(f.folder_id), " ">> \o f.filename

\* the sort with its comparator turned round: oldest first
compareOldestFirst(a, b) == getTime(a.modified_at) - getTime(b.modified_at)

\* the comparator of the sort: negative, zero or positive
compareModified(a, b) == getTime(b.modified_at) - getTime(a.modified_at)

\* Array.prototype.sort is stable: x goes behind every element that does not
\* compare greater than it
RECURSIVE InsertSorted(_, _)
InsertSorted(sorted, x) ==
  IF sorted = <<>> THEN <<x>>
  ELSE IF compareModified(sorted[1], x) <= 0
       THEN <<sorted[1]>> \o InsertSorted(Tail(sorted), x)
       ELSE <<x>> \o sorted

RECURSIVE sortedFiles(_)
sortedFiles(fl) ==
  IF fl = <<>> THEN <<>>
  ELSE InsertSorted(sortedFiles(SubSeq(fl, 1, Len(fl) - 1)), fl[Len(fl)])

\* lodash.uniqBy: the first element of each key, in order
RECURSIVE uniqBy(_)
uniqBy(fl) ==
  IF fl = <<>> THEN <<>>
  ELSE LET init == uniqBy(SubSeq(fl, 1, Len(fl) - 1))
           x    == fl[Len(fl)]
       IN  IF \E i \in 1..Len(init) : uniqKey(init[i]) = uniqKey(x)
           THEN init ELSE Append(init, x)

uniqueFilesOf(fl) == uniqBy(sortedFiles(fl))

\* --------------------------------------------------------------- the gate
\* the test reading the access time instead of the modification time
FreshByAtime(fsys, destPath, mtime) ==
  destPath \in DOMAIN fsys /\ mtime = statAtime(fsys[destPath])

\* the test that never finds the destination fresh
NeverFresh(fsys, destPath, mtime) == FALSE

\* fIfNeeded's test: the path exists and its stored mtime is the desired one
Fresh(fsys, destPath, mtime) ==
  destPath \in DOMAIN fsys /\ mtime = statMtime(fsys[destPath])

\* a write that leaves nothing but the file written
WrittenAlone(fsys, destPath, bytes) ==
  [p \in {destPath} |-> [content |-> bytes, atime |-> Now, mtime |-> Now]]

\* f(): the bytes arrive at destPath, written now
Written(fsys, destPath, bytes) ==
  [p \in DOMAIN fsys \cup {destPath} |->
     IF p = destPath THEN [content |-> bytes, atime |-> Now, mtime |-> Now]
     ELSE fsys[p]]

\* fs.utimes with its two times the wrong way round
UtimesSwapped(fsys, destPath, atime, mtime) ==
  [fsys EXCEPT ![destPath].atime = mtime, ![destPath].mtime = atime]

\* fs.utimes(destPath, atime, mtime)
Utimes(fsys, destPath, atime, mtime) ==
  [fsys EXCEPT ![destPath].atime = atime, ![destPath].mtime = mtime]

\* the last statement of fIfNeeded
Stamped(fsys, destPath, mtime) == Utimes(fsys, destPath, Now, toTimespec(mtime))

\* ---------------------------------------------------------------- the state
VARIABLES
  remote,      \* what the Canvas API serves: the courses, each course's listings
  fs,          \* the files under the target directory: path -> content, times
  run,         \* which invocation of the program this is
  pc,          \* where run() stands
  ci,          \* index of the course of the for loop of run()
  cat,         \* the category downloader run() awaits
  ii,          \* index of the record of that downloader's for loop
  gatePrior,   \* history: what the gate call before the one in flight was
  tasks,       \* the callbacks of links.forEach still known to the process
  status,      \* history: course, category -> idle, running, returned, rejected
  failed,      \* history: the failures of this invocation
  handled,     \* history: the records driven through the gate, this invocation
  fetches,     \* history: calls of the produce action, this invocation
  lastCall,    \* history: the gate call that ended last, no call begun since
  prevComplete,\* history: the invocation before ran every downloader to its end
  failures,    \* failures so far, over all invocations
  files,       \* deduplication alone: the listing handed in
  uniqueFiles, \* deduplication alone: what the loop of downloadFiles iterates
  names,       \* path resolution alone: the remote names handed in
  destPaths,   \* path resolution alone: category -> path handed to the gate
  options,     \* program.opts(): what the command line gave for each flag
  usageExit    \* the status program.help() ended the process with, or "none"

vars == <<remote, fs, run, pc, ci, cat, ii, gatePrior, tasks, status, failed,
          handled, fetches, lastCall, prevComplete, failures,
          files, uniqueFiles, names, destPaths, options, usageExit>>

runVars  == <<remote, fs, run, ci, cat, ii, gatePrior, tasks, status, failed,
              handled, fetches, lastCall, prevComplete, failures>>
cfgVars  == <<options, usageExit>>
pureVars == <<files, uniqueFiles, names, destPaths, options, usageExit>>

\* the order of the awaits of run()
Categories == <<"assignments", "files", "pages", "announcements", "modules">>
CategorySet == {Categories[i] : i \in 1..Len(Categories)}
CatIndex(c) == CHOOSE i \in 1..Len(Categories) : Categories[i] = c

ItemNames == {<<"a">>, <<"b">>}
Records == [name : ItemNames, modified_at : 0..MaxTime]
Listings == UNION {[1..k -> Records] : k \in 0..MaxItems}

\* what a module item is: a file; an item without url (a header, a text); an
\* item whose descriptor has no url; an item whose descriptor has no filename
ModuleItemKinds == {"file", "nolocator", "nourl", "nofilename"}

\* the one folder and the one module the remote lists
FolderName == <<"course", " ", "files">>
ModuleName == <<"week", " ", "1">>

NoCall == [path |-> <<>>, mtime |-> 0, result |-> "none", prior |-> "none",
           alone |-> FALSE, stored |-> 0]

\* the records the loop of downloader c iterates for course k
Items(k, c) ==
  IF c = "files"
  THEN uniqueFilesOf([i \in 1..Len(remote.listing[k][c]) |->
         [folder_id |-> 1, filename |-> remote.listing[k][c][i].name,
          modified_at |-> remote.listing[k][c][i].modified_at]])
  ELSE remote.listing[k][c]

\* what item i of the module of course k is
ItemKind(k, i) == remote.kinds[k][i]

\* downloadModules: `if (!item.url) continue`
NoLocator(kind) == kind = "nolocator"

\* the test of the descriptor without its half on the filename
LacksUrl(kind) == kind = "nourl"

\* downloadModules: `if (!thing.url||!thing.filename) continue`
LacksUrlOrFilename(kind) == kind \in {"nourl", "nofilename"}

\* new Date(record.modified_at), as the gate compares it
ItemTime(k, c, i) == getTime(Items(k, c)[i].modified_at)

\* the destination of record i of category c of course k
DestPath(k, c, i) ==
  LET dir == CourseDir(remote.courses[k])
  IN  CASE c = "files"         -> FilesDestPath(dir, FolderName, Items(k, c)[i].filename)
        [] c = "modules"       -> ModulesDestPath(dir, ModuleName, Items(k, c)[i].name)
        [] c = "assignments"   -> AssignmentsDestPath(dir, Items(k, c)[i].name)
        [] c = "pages"         -> PagesDestPath(dir, Items(k, c)[i].name)
        [] c = "announcements" -> AnnouncementsDestPath(dir, Items(k, c)[i].name, i)

\* the bytes the remote serves for that record
Bytes(k, c, i) == <<c, Items(k, c)[i]>>

Alive == pc \notin {"exited", "crashed", "dedup", "deduped", "paths"}

\* the gate calls past their test and not yet returned, but for the caller's
\* own (own = {t} for callback t, {} for the downloader run() awaits)
OthersInFlight(own) ==
  \/ own # {} /\ pc \in {"produce", "stamp"}
  \/ \E u \in tasks \ own : u.phase \in {"produce", "stamp"}

\* what the gate call before this one did, when this call follows it directly
\* (no other call in flight when it ended, none begun since) with the same
\* destination and the same desired time
Prior(destPath, mtime) ==
  IF lastCall.result # "none" /\ lastCall.alone
     /\ lastCall.path = destPath /\ lastCall.mtime = mtime
  THEN lastCall.result ELSE "none"

Ended(destPath, mtime, result, prior, fsys, own) ==
  [path |-> destPath, mtime |-> mtime, result |-> result, prior |-> prior,
   alone |-> ~OthersInFlight(own),
   stored |-> IF destPath \in DOMAIN fsys THEN statMtime(fsys[destPath]) ELSE -1]

\* a request, transfer or write either succeeds or fails one of the ways given
Outcome(ways) == {"ok"} \cup (IF failures < MaxFailures THEN ways ELSE {})

Fail(kind, k, c, i) ==
  /\ failures' = failures + 1
  /\ failed' = failed \cup {[kind |-> kind, ci |-> k, cat |-> c, ii |-> i]}

NoFail == UNCHANGED <<failures, failed>>

\* a failed transfer leaves the destination as it was or holding a part
AfterFailedWrite(fsys, destPath) == {fsys, Written(fsys, destPath, <<"partial">>)}

\* run() awaiting a downloader without a catch
CatchesNothing(c) == FALSE

\* run(): `await downloadX(c, courseDir).catch(console.error)`
CatchesRejection(c) == TRUE

\* a promise nobody awaits rejects: node ends the process
UnhandledRejection == "crashed"

\* a command line that passes every test of lines 26-36: --all with the three
\* required flags
ValidOptions ==
  [course |-> "undefined", all |-> "true", dir |-> "value", url |-> "value",
   token |-> "value"]

Courses == UNION {[1..n -> {<<>>, <<"c", " ">>}] : n \in 1..MaxCourses}

Init ==
  /\ \E cs \in Courses, focus \in CategorySet, l \in Listings :
     \E fk \in 1..Len(cs), kd \in [1..Len(l) -> ModuleItemKinds] :
       /\ focus # "modules" => \A i \in 1..Len(l) : kd[i] = "file"
       /\ remote = [courses |-> [k \in 1..Len(cs) |-> [id |-> k, name |-> cs[k]]],
                    listing |-> [k \in 1..Len(cs) |-> [c \in CategorySet |->
                                   IF k = fk /\ c = focus THEN l ELSE <<>>]],
                    kinds |-> [k \in 1..Len(cs) |->
                                 IF k = fk /\ focus = "modules" THEN kd ELSE <<>>]]
  /\ fs = <<>>
  /\ run = 1
  /\ pc = "start"
  /\ ci = 0
  /\ cat = Categories[1]
  /\ ii = 0
  /\ gatePrior = "none"
  /\ tasks = {}
  /\ status = [k \in 1..Len(remote.courses) |-> [c \in CategorySet |-> "idle"]]
  /\ failed = {}
  /\ handled = {}
  /\ fetches = 0
  /\ lastCall = NoCall
  /\ prevComplete = FALSE
  /\ failures = 0
  /\ files = <<>>
  /\ uniqueFiles = <<>>
  /\ names = <<>>
  /\ destPaths = {}
  /\ options = ValidOptions
  /\ usageExit = "none"

\* ------------------------------------------------------------------ run()
\* how an awaited downloader ends: its promise resolves or rejects
EndCategory(outcome) ==
  /\ IF outcome = "rejected" /\ ~CatchesRejection(cat)
     THEN /\ pc' = "exited"
          /\ status' = [status EXCEPT ![ci][cat] = outcome]
          /\ UNCHANGED <<ci, cat, ii>>
     ELSE IF CatIndex(cat) = Len(Categories)
     THEN /\ pc' = "course"
          /\ ci' = ci + 1
          /\ cat' = Categories[1]
          /\ ii' = 0
          /\ status' = [status EXCEPT ![ci][cat] = outcome]
     ELSE /\ pc' = "enum"
          /\ cat' = Categories[CatIndex(cat) + 1]
          /\ ii' = 0
          /\ status' = [status EXCEPT ![ci][cat] = outcome,
                                      ![ci][Categories[CatIndex(cat) + 1]] = "running"]
          /\ UNCHANGED ci

\* fIfNeeded up to its test, for a downloader run() awaits
EnterGate(destPath, mtime) ==
  /\ handled' = handled \cup {<<ci, cat, ii>>}
  /\ IF Fresh(fs, destPath, mtime)
     THEN /\ lastCall' = Ended(destPath, mtime, "skip", Prior(destPath, mtime), fs, {})
          /\ ii' = ii + 1
          /\ UNCHANGED <<pc, gatePrior>>
     ELSE /\ pc' = "produce"
          /\ gatePrior' = Prior(destPath, mtime)
          /\ lastCall' = NoCall
          /\ UNCHANGED ii

\* const courses = await getJson(`${options.url}/courses`)
ListCourses ==
  /\ pc = "start"
  /\ \E r \in Outcome({"undefined", "throws"}) :
       IF r = "ok" THEN pc' = "course" /\ ci' = 1 /\ NoFail
       ELSE /\ pc' = (IF r = "undefined" THEN "done" ELSE "exited")
            /\ Fail("courses", 0, "run", 0)
            /\ UNCHANGED ci
  /\ UNCHANGED <<remote, fs, run, cat, ii, gatePrior, tasks, status, handled,
                 fetches, lastCall, prevComplete, pureVars>>

\* the for loop of run() going on to the next course while a downloader it
\* did not await is still in its item loop
NextCourseUnawaited ==
  /\ pc \in {"course", "item"}
  /\ IF pc = "item"
     THEN /\ ci < Len(remote.courses) /\ remote.courses[ci + 1].name # <<>>
          /\ pc' = "enum" /\ ci' = ci + 1 /\ cat' = Categories[1] /\ ii' = 0
          /\ status' = [status EXCEPT ![ci + 1][Categories[1]] = "running"]
     ELSE /\ IF ci > Len(remote.courses)
             THEN pc' = "done" /\ UNCHANGED <<ci, status>>
             ELSE IF remote.courses[ci].name = <<>>
             THEN ci' = ci + 1 /\ UNCHANGED <<pc, status>>
             ELSE /\ pc' = "enum"
                  /\ status' = [status EXCEPT ![ci][Categories[1]] = "running"]
                  /\ UNCHANGED ci
          /\ UNCHANGED <<cat, ii>>
  /\ NoFail
  /\ UNCHANGED <<remote, fs, run, gatePrior, tasks, handled, fetches,
                 lastCall, prevComplete, pureVars>>

\* the head of `for (const c of coursesToProcess)`
NextCourse ==
  /\ pc = "course"
  /\ IF ci > Len(remote.courses)
     THEN pc' = "done" /\ UNCHANGED <<ci, status>>
     ELSE IF remote.courses[ci].name = <<>>
     THEN ci' = ci + 1 /\ UNCHANGED <<pc, status>>
     ELSE /\ pc' = "enum"
          /\ status' = [status EXCEPT ![ci][Categories[1]] = "running"]
          /\ UNCHANGED ci
  /\ NoFail
  /\ UNCHANGED <<remote, fs, run, cat, ii, gatePrior, tasks, handled, fetches,
                 lastCall, prevComplete, pureVars>>

\* downloadAssignments handling its links one at a time: the first one only
DownloadAssignmentsOneLink ==
  /\ pc = "enum" /\ cat = "assignments"
  /\ \E r \in Outcome({"undefined", "throws"}) :
       IF r = "ok"
       THEN /\ tasks' = tasks \cup
                  {[ci |-> ci, li |-> i, phase |-> "resolve", prior |-> "none"] :
                     i \in {j \in 1..Len(Items(ci, cat)) : j = 1}}
            /\ NoFail
            /\ EndCategory("returned")
       ELSE /\ Fail("enum", ci, cat, 0)
            /\ EndCategory("rejected")
            /\ UNCHANGED tasks
  /\ UNCHANGED <<remote, fs, run, gatePrior, handled, fetches, lastCall,
                 prevComplete, pureVars>>

\* downloadAssignments: the listing, then one callback per link, not awaited
DownloadAssignments ==
  /\ pc = "enum" /\ cat = "assignments"
  /\ \E r \in Outcome({"undefined", "throws"}) :
       IF r = "ok"
       THEN /\ tasks' = tasks \cup
                  {[ci |-> ci, li |-> i, phase |-> "resolve", prior |-> "none"] :
                     i \in 1..Len(Items(ci, cat))}
            /\ NoFail
            /\ EndCategory("returned")
       ELSE /\ Fail("enum", ci, cat, 0)
            /\ EndCategory("rejected")
            /\ UNCHANGED tasks
  /\ UNCHANGED <<remote, fs, run, gatePrior, handled, fetches, lastCall,
                 prevComplete, pureVars>>

\* a listing call of a downloader that returns when the listing is undefined
EnumOrReturn(next) ==
  /\ \E r \in Outcome({"undefined", "throws"}) :
       IF r = "ok"
       THEN pc' = next /\ ii' = 1 /\ NoFail /\ UNCHANGED <<ci, cat, status>>
       ELSE /\ Fail("enum", ci, cat, 0)
            /\ EndCategory(IF r = "undefined" THEN "returned" ELSE "rejected")
  /\ UNCHANGED <<remote, fs, run, gatePrior, tasks, handled, fetches, lastCall,
                 prevComplete, pureVars>>

\* const folders = await getJson(.../folders); if (!folders) return
FilesFolders == pc = "enum" /\ cat = "files" /\ EnumOrReturn("enum2")

\* const files = await getJson(.../files); if (!files) return
FilesList == pc = "enum2" /\ cat = "files" /\ EnumOrReturn("item")

PagesEnum == pc = "enum" /\ cat = "pages" /\ EnumOrReturn("item")

AnnouncementsEnum == pc = "enum" /\ cat = "announcements" /\ EnumOrReturn("item")

\* a listing call whose result is iterated unchecked: undefined throws too
EnumOrThrow(next, empty) ==
  /\ \E r \in Outcome({"undefined", "throws"}) :
       IF r = "ok"
       THEN /\ NoFail
            /\ IF empty THEN EndCategory("returned")
               ELSE pc' = next /\ ii' = 1 /\ UNCHANGED <<ci, cat, status>>
       ELSE /\ Fail("enum", ci, cat, 0)
            /\ EndCategory("rejected")
  /\ UNCHANGED <<remote, fs, run, gatePrior, tasks, handled, fetches, lastCall,
                 prevComplete, pureVars>>

\* const modules = await getJson(.../modules); for (let module of modules)
ModulesEnum ==
  pc = "enum" /\ cat = "modules" /\ EnumOrThrow("enum2", remote.listing[ci][cat] = <<>>)

\* const items = await getJson(module.items_url); for (let item of items)
ModulesItems == pc = "enum2" /\ cat = "modules" /\ EnumOrThrow("item", FALSE)

\* one turn of the for loop of downloadFiles, downloadPages, downloadAnnouncements
GateItem(c) ==
  /\ pc = "item" /\ cat = c
  /\ IF ii > Len(Items(ci, c))
     THEN EndCategory("returned") /\ UNCHANGED <<handled, lastCall, gatePrior>>
     ELSE EnterGate(DestPath(ci, c, ii), ItemTime(ci, c, ii)) /\ UNCHANGED <<ci, cat, status>>
  /\ NoFail
  /\ UNCHANGED <<remote, fs, run, tasks, fetches, prevComplete, pureVars>>

FilesItem == GateItem("files")

PagesItem == GateItem("pages")

AnnouncementsItem == GateItem("announcements")

\* `continue` in the inner loop of downloadModules
ModulesContinue ==
  /\ ii' = ii + 1
  /\ NoFail
  /\ UNCHANGED <<pc, ci, cat, status, handled, lastCall, gatePrior>>

\* one turn of the inner loop of downloadModules: an item without url is
\* passed over; thing = await getJson(item.url), then thing.url and
\* thing.filename are read
ModulesItem ==
  /\ pc = "item" /\ cat = "modules"
  /\ IF ii > Len(Items(ci, cat))
     THEN EndCategory("returned") /\ NoFail /\ UNCHANGED <<handled, lastCall, gatePrior>>
     ELSE IF NoLocator(ItemKind(ci, ii))
     THEN ModulesContinue
     ELSE \E r \in Outcome({"undefined", "throws"}) :
            IF r = "ok"
            THEN IF LacksUrlOrFilename(ItemKind(ci, ii))
                 THEN ModulesContinue
                 ELSE /\ EnterGate(DestPath(ci, cat, ii), ItemTime(ci, cat, ii))
                      /\ NoFail
                      /\ UNCHANGED <<ci, cat, status>>
            ELSE /\ Fail("resolve", ci, cat, ii)
                 /\ EndCategory("rejected")
                 /\ UNCHANGED <<handled, lastCall, gatePrior>>
  /\ UNCHANGED <<remote, fs, run, tasks, fetches, prevComplete, pureVars>>

\* the fetch branch trying f() a second time when it fails
GateProduceRetry ==
  /\ pc = "produce"
  /\ LET destPath == DestPath(ci, cat, ii)
         mtime    == ItemTime(ci, cat, ii)
     IN  \E r \in Outcome({"fails"}) :
           IF r = "ok"
           THEN /\ fs' = Written(fs, destPath, Bytes(ci, cat, ii))
                /\ pc' = "stamp"
                /\ NoFail
                /\ fetches' = fetches + 1
                /\ UNCHANGED <<ci, cat, ii, status, lastCall, gatePrior>>
           ELSE /\ \E f \in AfterFailedWrite(fs, destPath) :
                     /\ fs' = f
                     /\ lastCall' = Ended(destPath, mtime, "failed", gatePrior, f, {})
                /\ Fail("produce", ci, cat, ii)
                /\ EndCategory("rejected")
                /\ gatePrior' = "none"
                /\ fetches' = fetches + 2
  /\ UNCHANGED <<remote, run, tasks, handled, prevComplete, pureVars>>

\* fIfNeeded: `else await f()`
GateProduce ==
  /\ pc = "produce"
  /\ LET destPath == DestPath(ci, cat, ii)
         mtime    == ItemTime(ci, cat, ii)
     IN  \E r \in Outcome({"fails"}) :
           IF r = "ok"
           THEN /\ fs' = Written(fs, destPath, Bytes(ci, cat, ii))
                /\ pc' = "stamp"
                /\ NoFail
                /\ UNCHANGED <<ci, cat, ii, status, lastCall, gatePrior>>
           ELSE /\ \E f \in AfterFailedWrite(fs, destPath) :
                     /\ fs' = f
                     /\ lastCall' = Ended(destPath, mtime, "failed", gatePrior, f, {})
                /\ Fail("produce", ci, cat, ii)
                /\ EndCategory("rejected")
                /\ gatePrior' = "none"
  /\ fetches' = fetches + 1
  /\ UNCHANGED <<remote, run, tasks, handled, prevComplete, pureVars>>

\* fIfNeeded: `await fs.utimes(destPath, new Date(), mtime)`
GateStamp ==
  /\ pc = "stamp"
  /\ LET destPath == DestPath(ci, cat, ii)
         mtime    == ItemTime(ci, cat, ii)
     IN  /\ fs' = Stamped(fs, destPath, mtime)
         /\ lastCall' = Ended(destPath, mtime, "written", gatePrior, fs', {})
  /\ pc' = "item"
  /\ ii' = ii + 1
  /\ gatePrior' = "none"
  /\ NoFail
  /\ UNCHANGED <<remote, run, ci, cat, tasks, status, handled, fetches,
                 prevComplete, pureVars>>

\* ------------------------------------------------ the callbacks of forEach
Moved(t, phase, prior) ==
  (tasks \ {t}) \cup {[t EXCEPT !.phase = phase, !.prior = prior]}

\* thing = await getJson(href); thing.url is read; fIfNeeded up to its test
TaskResolve(t) ==
  /\ Alive /\ t.phase = "resolve"
  /\ LET destPath == DestPath(t.ci, "assignments", t.li)
         mtime    == ItemTime(t.ci, "assignments", t.li)
     IN  \E r \in Outcome({"undefined", "throws"}) :
           IF r = "ok"
           THEN /\ handled' = handled \cup {<<t.ci, "assignments", t.li>>}
                /\ IF Fresh(fs, destPath, mtime)
                   THEN /\ tasks' = Moved(t, "done", "none")
                        /\ lastCall' = Ended(destPath, mtime, "skip",
                                             Prior(destPath, mtime), fs, {t})
                   ELSE /\ tasks' = Moved(t, "produce", Prior(destPath, mtime))
                        /\ lastCall' = NoCall
                /\ NoFail
                /\ UNCHANGED pc
           ELSE /\ Fail("resolve", t.ci, "assignments", t.li)
                /\ tasks' = Moved(t, "rejected", "none")
                /\ pc' = (IF UnhandledRejection = "crashed" THEN "crashed" ELSE pc)
                /\ UNCHANGED <<handled, lastCall>>
  /\ UNCHANGED <<remote, fs, run, ci, cat, ii, gatePrior, status, fetches,
                 prevComplete, pureVars>>

TaskProduce(t) ==
  /\ Alive /\ t.phase = "produce"
  /\ LET destPath == DestPath(t.ci, "assignments", t.li)
         mtime    == ItemTime(t.ci, "assignments", t.li)
     IN  \E r \in Outcome({"fails"}) :
           IF r = "ok"
           THEN /\ fs' = Written(fs, destPath, Bytes(t.ci, "assignments", t.li))
                /\ tasks' = Moved(t, "stamp", t.prior)
                /\ NoFail
                /\ UNCHANGED <<pc, lastCall>>
           ELSE /\ \E f \in AfterFailedWrite(fs, destPath) :
                     /\ fs' = f
                     /\ lastCall' = Ended(destPath, mtime, "failed", t.prior, f, {t})
                /\ Fail("produce", t.ci, "assignments", t.li)
                /\ tasks' = Moved(t, "rejected", "none")
                /\ pc' = (IF UnhandledRejection = "crashed" THEN "crashed" ELSE pc)
  /\ fetches' = fetches + 1
  /\ UNCHANGED <<remote, run, ci, cat, ii, gatePrior, status, handled,
                 prevComplete, pureVars>>

TaskStamp(t) ==
  /\ Alive /\ t.phase = "stamp"
  /\ LET destPath == DestPath(t.ci, "assignments", t.li)
         mtime    == ItemTime(t.ci, "assignments", t.li)
     IN  /\ fs' = Stamped(fs, destPath, mtime)
         /\ lastCall' = Ended(destPath, mtime, "written", t.prior, fs', {t})
  /\ tasks' = Moved(t, "done", "none")
  /\ NoFail
  /\ UNCHANGED <<remote, run, pc, ci, cat, ii, gatePrior, status, handled,
                 fetches, prevComplete, pureVars>>

\* ------------------------------------------------------- the next invocation
Settled == \A t \in tasks : t.phase \in {"done", "rejected"}

ProcessEnded == pc \in {"exited", "crashed"} \/ (pc = "done" /\ Settled)

\* every downloader of every selected course ran to its end and nothing failed
Complete ==
  /\ pc = "done" /\ Settled /\ failed = {}
  /\ \A k \in 1..Len(remote.courses) :
       remote.courses[k].name # <<>> =>
         \A c \in CategorySet : status[k][c] = "returned"

NextRun ==
  /\ ProcessEnded
  /\ run < MaxRuns
  /\ run' = run + 1
  /\ pc' = "start"
  /\ ci' = 0
  /\ cat' = Categories[1]
  /\ ii' = 0
  /\ gatePrior' = "none"
  /\ tasks' = {}
  /\ status' = [k \in 1..Len(remote.courses) |-> [c \in CategorySet |-> "idle"]]
  /\ failed' = {}
  /\ handled' = {}
  /\ fetches' = 0
  /\ prevComplete' = Complete
  /\ UNCHANGED <<remote, fs, lastCall, failures, pureVars>>

Next ==
  \/ ListCourses
  \/ NextCourse
  \/ DownloadAssignments
  \/ FilesFolders
  \/ FilesList
  \/ FilesItem
  \/ PagesEnum
  \/ PagesItem
  \/ AnnouncementsEnum
  \/ AnnouncementsItem
  \/ ModulesEnum
  \/ ModulesItems
  \/ ModulesItem
  \/ GateProduce
  \/ GateStamp
  \/ \E t \in tasks : TaskResolve(t)
  \/ \E t \in tasks : TaskProduce(t)
  \/ \E t \in tasks : TaskStamp(t)
  \/ NextRun

Spec == Init /\ [][Next]_vars

\* ------------------------------------------- the deduplication on its own
FileRecords == [folder_id : 1..2, filename : ItemNames, modified_at : 0..MaxTime]
FileLists == UNION {[1..k -> FileRecords] : k \in 0..MaxFiles}

\* the run stands still while a pure function is applied
Idle ==
  /\ remote = [courses |-> <<>>, listing |-> <<>>, kinds |-> <<>>]
  /\ fs = <<>>
  /\ run = 1
  /\ ci = 0
  /\ cat = Categories[1]
  /\ gatePrior = "none"
  /\ tasks = {}
  /\ status = <<>>
  /\ failed = {}
  /\ handled = {}
  /\ fetches = 0
  /\ lastCall = NoCall
  /\ prevComplete = FALSE
  /\ failures = 0
  /\ options = ValidOptions
  /\ usageExit = "none"

InitDedup ==
  /\ Idle
  /\ pc = "dedup"
  /\ ii = 0
  /\ files \in FileLists
  /\ uniqueFiles = <<>>
  /\ names = <<>>
  /\ destPaths = {}

\* downloadFiles: sortedFiles, then uniqueFiles
Deduplicate ==
  /\ pc = "dedup"
  /\ uniqueFiles' = uniqueFilesOf(files)
  /\ pc' = "deduped"
  /\ UNCHANGED <<runVars, files, names, destPaths, cfgVars>>

NextDedup == Deduplicate

SpecDedup == InitDedup /\ [][NextDedup]_vars

\* ------------------------------------------ the path resolution on its own
\* One course; `container` is the folder's full_name and the module's name,
\* `leaf` the file's filename, the resolved filename, the link text, the page
\* url and the announcement title.
PathsCourse == [id |-> 1, name |-> <<"c", " ">>]

InitPaths ==
  /\ Idle
  /\ pc = "paths"
  /\ ii = 1
  /\ files = <<>>
  /\ uniqueFiles = <<>>
  /\ names \in [container : Strings(MaxLen), leaf : Strings(MaxLen)]
  /\ destPaths = {}

\* downloader c reaches its call of fIfNeeded with destPath
Hand(c, destPath) ==
  /\ pc = "paths" /\ ii <= Len(Categories) /\ Categories[ii] = c
  /\ destPaths' = destPaths \cup {[cat |-> c, path |-> destPath]}
  /\ ii' = ii + 1
  /\ UNCHANGED <<remote, fs, run, pc, ci, cat, gatePrior, tasks, status, failed,
                 handled, fetches, lastCall, prevComplete, failures,
                 files, uniqueFiles, names, cfgVars>>

ResolveAssignments ==
  Hand("assignments", AssignmentsDestPath(CourseDir(PathsCourse), names.leaf))

ResolveFiles ==
  Hand("files", FilesDestPath(CourseDir(PathsCourse), names.container, names.leaf))

ResolvePages ==
  Hand("pages", PagesDestPath(CourseDir(PathsCourse), names.leaf))

ResolveAnnouncements ==
  Hand("announcements", AnnouncementsDestPath(CourseDir(PathsCourse), names.leaf, 1))

\* `if (!thing.url||!thing.filename) continue`: an empty filename is skipped
ResolveModules ==
  /\ names.leaf # <<>>
  /\ Hand("modules", ModulesDestPath(CourseDir(PathsCourse), names.container, names.leaf))

NextPaths ==
  \/ ResolveAssignments
  \/ ResolveFiles
  \/ ResolvePages
  \/ ResolveAnnouncements
  \/ ResolveModules

SpecPaths == InitPaths /\ [][NextPaths]_vars

\* ---------------------------------- the destinations of the files on their own
\* Two remote folders, names[1] and names[2] their full_name, not empty and
\* not the same; the listing is deduplicated, then each record that is left is resolved to its destination.
ShortFileLists == UNION {[1..k -> FileRecords] : k \in 0..MaxItems}

InitFiles ==
  /\ Idle
  /\ pc = "dedup"
  /\ ii = 0
  /\ files \in ShortFileLists
  /\ uniqueFiles = <<>>
  /\ names \in {n \in [1..2 -> Strings(MaxLen) \ {<<>>}] : n[1] # n[2]}
  /\ destPaths = {}

\* one turn of `for (const file of uniqueFiles)` up to the call of fIfNeeded
ResolveUnique ==
  /\ pc = "deduped" /\ ii < Len(uniqueFiles)
  /\ ii' = ii + 1
  /\ LET file == uniqueFiles[ii + 1]
         canvasFoldername == names[file.folder_id]
     IN  destPaths' = destPaths \cup
           {[cat |-> "files", key |-> uniqKey(file),
             path |-> FilesDestPath(CourseDir(PathsCourse), canvasFoldername,
                                    file.filename)]}
  /\ UNCHANGED <<remote, fs, run, pc, ci, cat, gatePrior, tasks, status, failed,
                 handled, fetches, lastCall, prevComplete, failures,
                 files, uniqueFiles, names, cfgVars>>

NextFiles ==
  \/ Deduplicate
  \/ ResolveUnique

SpecFiles == InitFiles /\ [][NextFiles]_vars

\* ------------------------------------------- the command line on its own
\* What program.opts() holds for a flag: "undefined" when the flag is absent;
\* --course alone is true, with a value the String of it; --all is Boolean of
\* its value, true when alone; --dir, --url, --token hold their value, which
\* may be the empty string.
CourseValues == {"undefined", "true", "name"}
AllValues    == {"undefined", "true", "false"}
KeyValues    == {"undefined", "", "value"}

\* the keys of the for loop of line 32
Keys == <<"dir", "url", "token">>

\* JavaScript's truthiness of an option value
Truthy(v) == v \notin {"undefined", "false", ""}

\* program.help(): commander prints the help and ends the process with
\* process.exitCode, which nothing has set: status 0
help == 0

InitConfig ==
  /\ remote = [courses |-> <<[id |-> 1, name |-> <<"c", " ">>]>>,
               listing |-> <<[c \in CategorySet |-> <<>>]>>, kinds |-> << <<>> >>]
  /\ fs = <<>>
  /\ run = 1
  /\ pc = "options"
  /\ ci = 0
  /\ cat = Categories[1]
  /\ ii = 0
  /\ gatePrior = "none"
  /\ tasks = {}
  /\ status = <<[c \in CategorySet |-> "idle"]>>
  /\ failed = {}
  /\ handled = {}
  /\ fetches = 0
  /\ lastCall = NoCall
  /\ prevComplete = FALSE
  /\ failures = 0
  /\ files = <<>>
  /\ uniqueFiles = <<>>
  /\ names = <<>>
  /\ destPaths = {}
  /\ options \in [course : CourseValues, all : AllValues,
                   dir : KeyValues, url : KeyValues, token : KeyValues]
  /\ usageExit = "none"

\* what no test of the options touches
cfgRest == <<remote, fs, run, ci, cat, gatePrior, tasks, status, failed, handled,
             fetches, lastCall, prevComplete, failures,
             files, uniqueFiles, names, destPaths>>

\* commanderFail(message): the message, then program.help(), which exits
commanderFail ==
  /\ pc' = "usage"
  /\ usageExit' = help

\* one test of the options: it fails into commanderFail or goes on to `next`
OptionTest(fails, next) ==
  /\ IF fails THEN commanderFail /\ UNCHANGED ii
     ELSE pc' = next /\ UNCHANGED usageExit /\ ii' = (IF next = "keys" THEN 1 ELSE ii)
  /\ UNCHANGED <<cfgRest, options>>

\* if (options.course && options.all)
CheckBoth ==
  /\ pc = "options"
  /\ OptionTest(Truthy(options.course) /\ Truthy(options.all), "options2")

\* if (!options.course && !options.all)
CheckNeither ==
  /\ pc = "options2"
  /\ OptionTest(~Truthy(options.course) /\ ~Truthy(options.all), "keys")

\* for (const key of ['dir', 'url', 'token']) if (!options[key])
CheckKey ==
  /\ pc = "keys" /\ ii <= Len(Keys)
  /\ IF ~Truthy(options[Keys[ii]])
     THEN commanderFail /\ UNCHANGED ii
     ELSE ii' = ii + 1 /\ UNCHANGED <<pc, usageExit>>
  /\ UNCHANGED <<cfgRest, options>>

\* the loop is over: run() is called and reaches its first request
CallRun ==
  /\ pc = "keys" /\ ii > Len(Keys)
  /\ pc' = "start"
  /\ ii' = 0
  /\ UNCHANGED <<cfgRest, cfgVars>>

NextConfig ==
  \/ CheckBoth
  \/ CheckNeither
  \/ CheckKey
  \/ CallRun
  \/ ListCourses

SpecConfig == InitConfig /\ [][NextConfig]_vars

\* ================================================================== claims
KeyIndices(fl, fid, fname) ==
  {i \in 1..Len(fl) : fl[i].folder_id = fid /\ fl[i].filename = fname}

\* the records of downloader c that are to reach the gate: all of them, but
\* for the module items that are passed over
Gated(k, c) ==
  {i \in 1..Len(Items(k, c)) : c = "modules" => ItemKind(k, i) = "file"}

Later(f) == {j \in Gated(f.ci, f.cat) : j > f.ii}

EnumFailure(k, c) == [kind |-> "enum", ci |-> k, cat |-> c, ii |-> 0]

Named == {k \in 1..Len(remote.courses) : remote.courses[k].name # <<>>}

\* C1: once an invocation has run every downloader of every selected course
\* to its end, the next invocation, on the same listings and the directory as
\* it was left, calls no produce action: every gate call of it skips.
C1_SecondRunSkipsAll == (run >= 2 /\ prevComplete) => fetches = 0

C4_DedupKeepsNewest ==
  pc = "deduped" =>
    \A fid \in 1..2, fname \in ItemNames :
      LET same == KeyIndices(files, fid, fname)
          kept == KeyIndices(uniqueFiles, fid, fname)
      IN  ( /\ same # {}
            /\ \A i, j \in same :
                 i # j => files[i].modified_at # files[j].modified_at )
          => /\ Cardinality(kept) = 1
             /\ \A j \in kept :
                  /\ \E i \in same : uniqueFiles[j] = files[i]
                  /\ \A i \in same : uniqueFiles[j].modified_at >= files[i].modified_at

\* two records of one key, the older listed first, among records of another key
C4_Witness ==
  /\ pc = "deduped"
  /\ \E fid \in 1..2, fname \in ItemNames :
       LET same == KeyIndices(files, fid, fname)
       IN  /\ Cardinality(same) >= 2
           /\ \A i, j \in same : i # j => files[i].modified_at # files[j].modified_at
           /\ \E i, j \in same : i < j /\ files[i].modified_at < files[j].modified_at
           /\ Len(uniqueFiles) >= 2

\* C5: when the listing call of one downloader is the failure of a course,
\* the process goes on, and by its end each of the other four downloaders of
\* that course has been invoked, has returned, and has driven every record of
\* its listing through the gate.
C5_EnumerationFailureIsolated ==
  \A k \in 1..Len(remote.courses), x \in CategorySet :
    failed = {EnumFailure(k, x)} =>
      /\ pc \notin {"exited", "crashed"}
      /\ (pc = "done" /\ Settled) =>
           \A y \in CategorySet \ {x} :
             /\ status[k][y] = "returned"
             /\ \A i \in Gated(k, y) : <<k, y, i>> \in handled

\* a listing failed, and another downloader of the course handled its records
C5_Witness ==
  /\ pc = "done" /\ Settled
  /\ \E k \in 1..Len(remote.courses), x \in CategorySet :
       /\ failed = {EnumFailure(k, x)}
       /\ \E y \in CategorySet \ {x} :
            /\ Gated(k, y) # {}
            /\ \A i \in Gated(k, y) : <<k, y, i>> \in handled

\* C6: whatever fails while a downloader is at work, the work it dispatched
\* included, every downloader of every selected course has been invoked by the
\* time the process ends.
C6_FailureStaysInCategory ==
  (ProcessEnded /\ \A f \in failed : f.kind # "courses") =>
    \A k \in Named, c \in CategorySet : status[k][c] # "idle"

\* C7: when the resolution call of one module item or one assignment link
\* fails, every later item of the same module or assignment has been driven
\* through the gate by the time the process ends.
C7_ResolutionFailureSkipsOneItem ==
  ProcessEnded =>
    \A f \in failed :
      f.kind = "resolve" => \A j \in Later(f) : <<f.ci, f.cat, j>> \in handled

\* C8: when the produce action fails for one item of a downloader, every
\* later item of the same downloader has been driven through the gate by the
\* time the process ends.
C8_TransferFailureSkipsOneItem ==
  ProcessEnded =>
    \A f \in failed :
      f.kind = "produce" => \A j \in Later(f) : <<f.ci, f.cat, j>> \in handled

\* C9: no component below the target directory of a path handed to the gate
\* holds whitespace or a disallowed character.
C9_PathsSanitized ==
  \A d \in destPaths :
    LET below == Below(TargetFolder, d.path)
    IN  \A i \in 1..Len(below) : \A j \in 1..Len(below[i]) :
          below[i][j] \notin Whitespace \cup Reserved

\* C10: no path is handed to the gate by two different downloaders.
C10_CategoriesDisjoint ==
  \A d, e \in destPaths : d.cat # e.cat => d.path # e.path

\* C11: when the options fail a test of lines 26-36 the process ends with a
\* status other than zero, and before that no request was issued and nothing
\* was created under the target directory.
C11_ConfigFailureExitsNonZero ==
  pc = "usage" =>
    /\ usageExit # 0
    /\ ci = 0 /\ failures = 0
    /\ fs = <<>>

\* the records whose gate call makes its test in this step
Tested == handled' \ handled

\* the destination of record x exists and its stored time is the desired one
ExistsWithTime(x) ==
  LET destPath == DestPath(x[1], x[2], x[3])
  IN  /\ destPath \in DOMAIN fs
      /\ statMtime(fs[destPath]) = ItemTime(x[1], x[2], x[3])

\* C12: a gate call that finds its destination existing with the desired
\* modification time calls no produce action and leaves every file, with its
\* content, access time and modification time, as it was.
C12_SkipChangesNothing ==
  [][\A x \in Tested :
       ExistsWithTime(x) =>
         /\ fs' = fs
         /\ fetches' = fetches
         /\ pc' = "produce" => pc = "produce"
         /\ \A t \in tasks' : t.phase = "produce" => t \in tasks]_vars

\* a call skipped in the second invocation, two files under the target
C12_Witness ==
  /\ run = 2
  /\ lastCall.result = "skip" /\ lastCall.prior = "none"
  /\ Cardinality(DOMAIN fs) >= 2

\* the gate calls in their fetch branch, before f() and before fs.utimes
Producing ==
  (IF pc = "produce" THEN {<<ci, cat, ii>>} ELSE {})
    \cup {<<t.ci, "assignments", t.li>> : t \in {u \in tasks : u.phase = "produce"}}

Stamping ==
  (IF pc = "stamp" THEN {<<ci, cat, ii>>} ELSE {})
    \cup {<<t.ci, "assignments", t.li>> : t \in {u \in tasks : u.phase = "stamp"}}

\* the calls whose f() settles in this step (a call the process dies under
\* settles nothing)
Attempted ==
  (IF pc = "produce" /\ pc' \notin {"produce", "crashed"}
   THEN {<<ci, cat, ii>>} ELSE {})
    \cup {<<t.ci, "assignments", t.li>> :
            t \in {u \in tasks : u.phase = "produce" /\ u \notin tasks'}}

\* the failure of x's f() has reached the caller of its gate call
Rejected(x) ==
  IF x[2] = "assignments"
  THEN \E t \in tasks' : t.ci = x[1] /\ t.li = x[3] /\ t.phase = "rejected"
  ELSE status'[x[1]][x[2]] = "rejected"

\* C13: a gate call that takes the fetch branch calls the produce action
\* exactly once; when the produce action fails the call ends there: the
\* failure reaches its caller, there is no second attempt, and the call does
\* not stamp the desired modification time on the destination (a destination
\* that holds it afterwards held it before, from another call).
C13_FetchAttemptsOnce ==
  [][run' = run =>
       /\ \A x \in Producing' \ Producing : x \in Tested
       /\ \A x \in Tested :
            ~ExistsWithTime(x) => x \in Producing' /\ fetches' = fetches
       /\ fetches' - fetches = Cardinality(Attempted)
       /\ \A x \in Stamping' \ Stamping : x \in Attempted
       /\ \A x \in Attempted :
            \/ x \in Stamping' /\ failed' = failed
            \/ /\ x \notin Stamping' \cup Producing'
               /\ failed' = failed \cup
                    {[kind |-> "produce", ci |-> x[1], cat |-> x[2], ii |-> x[3]]}
               /\ Rejected(x)
               /\ LET destPath == DestPath(x[1], x[2], x[3])
                  IN  ( /\ destPath \in DOMAIN fs'
                        /\ statMtime(fs'[destPath]) = ItemTime(x[1], x[2], x[3]) )
                      => destPath \in DOMAIN fs /\ fs'[destPath] = fs[destPath]]_vars

\* a produce action failed after an earlier call had fetched and stamped
C13_Witness ==
  /\ lastCall.result = "failed"
  /\ fetches >= 2
  /\ \E f \in failed : f.kind = "produce"

\* downloader d of course j comes before downloader c of course k
Before(j, d, k, c) == j < k \/ (j = k /\ CatIndex(d) < CatIndex(c))

Started == {kc \in (1..Len(remote.courses)) \X CategorySet :
              status[kc[1]][kc[2]] # "idle"}

\* C14: the callbacks of downloadAssignments apart, at most one gate call is
\* in flight, and it belongs to the one downloader that is running; a
\* downloader is started only when every downloader before it, of its course
\* and of the selected courses before, has returned or rejected.
C14_StrictSequencing ==
  /\ Cardinality({kc \in Started : status[kc[1]][kc[2]] = "running"}) <= 1
  /\ pc \in {"produce", "stamp"} =>
       cat # "assignments" /\ status[ci][cat] = "running"
  /\ \A kc \in Started :
       \A j \in Named, d \in CategorySet :
         Before(j, d, kc[1], kc[2]) => status[j][d] \in {"returned", "rejected"}

\* a downloader of the second course runs after the first course wrote a file
C14_Witness ==
  /\ fs # <<>>
  /\ \E k \in Named, c \in CategorySet :
       k >= 2 /\ 1 \in Named /\ status[k][c] = "running"

\* the callbacks of links.forEach with a gate call in flight
Fetching == {t \in tasks : t.phase \in {"produce", "stamp"}}

\* C15: downloadAssignments returns without waiting for the callbacks it
\* dispatched, one for every link at once: as long as callbacks of a course
\* exist its downloadAssignments has returned and there is one callback for
\* each link, however many, so that their fetches overlap each other and the
\* downloaders run() starts next.
C15_AssignmentsNotAwaited ==
  \A t \in tasks :
    /\ status[t.ci]["assignments"] = "returned"
    /\ {u.li : u \in {v \in tasks : v.ci = t.ci}} = 1..Len(Items(t.ci, "assignments"))

\* as many fetches in flight as there are links, while a downloader of a
\* later course is running
C15_Witness ==
  /\ Cardinality(Fetching) = MaxItems
  /\ \E t \in Fetching, k \in Named, c \in CategorySet :
       k > t.ci /\ status[k][c] = "running"

\* C16: no two gate calls between their test and their stamping have the
\* same destination, the callbacks of downloadAssignments included.
C16_OneWriterPerPath ==
  \A x, y \in Producing \cup Stamping :
    x # y => DestPath(x[1], x[2], x[3]) # DestPath(y[1], y[2], y[3])

\* the loop of downloadModules stands at an item that is passed over
AtSkippedItem ==
  /\ pc = "item" /\ cat = "modules"
  /\ ii <= Len(Items(ci, cat))
  /\ ItemKind(ci, ii) # "file"

\* C17: a module item without url, or whose descriptor has no url or no
\* filename, reaches no gate call and writes nothing; when its descriptor was
\* fetched (or there was nothing to fetch) no error is raised and the loop
\* stands at the next item of the module.
C17_SkippedModuleItemsNoOp ==
  [][(AtSkippedItem /\ tasks' = tasks) =>
       /\ fs' = fs /\ handled' = handled /\ fetches' = fetches
       /\ pc' # "produce"
       /\ ItemKind(ci, ii) = "nolocator" => failed' = failed
       /\ failed' = failed =>
            pc' = "item" /\ ii' = ii + 1 /\ status' = status]_vars

\* an item whose descriptor has no filename was passed over and the item
\* after it went through the gate
C17_Witness ==
  \E k \in Named :
    /\ Len(remote.kinds[k]) >= 2
    /\ ItemKind(k, 1) = "nofilename"
    /\ <<k, "modules", 2>> \in handled
    /\ failed = {}

\* C18: a file that exists goes on existing, in this invocation and the
\* next, and its content and modification time change only in a step of a
\* gate call that took the fetch branch for its path.
C18_NoDeletion ==
  [][/\ DOMAIN fs \subseteq DOMAIN fs'
     /\ \A p \in DOMAIN fs :
          (fs'[p].content # fs[p].content \/ fs'[p].mtime # fs[p].mtime) =>
            \E x \in Producing \cup Stamping : DestPath(x[1], x[2], x[3]) = p]_vars

\* in the second invocation the one file of the target was fetched over twice
C18_Witness ==
  /\ run = 2 /\ fetches = 2 /\ failed = {}
  /\ lastCall.result = "written"
  /\ Cardinality(DOMAIN fs) = 1

\* C19: every path a downloader hands to the gate lies inside the course's
\* directory, whatever the remote names are.
C19_PathsInsideCourseDir ==
  \A d \in destPaths :
    /\ IsPrefix(CourseDir(PathsCourse), d.path)
    /\ Len(d.path) > Len(CourseDir(PathsCourse))

\* C20: two records that the deduplication leaves, with different keys
\* (folder_id, filename), never get the same destination.
C20_DistinctKeysDistinctPaths ==
  \A d, e \in destPaths : d.key # e.key => d.path # e.path

====
